---- MODULE Spec2Model ----
(***************************************************************************)
(* PSXGraphics: the Blender exporter (blendertoc.py) that interns the      *)
(* per-loop positions, normals and UVs of a mesh, pads triangles and       *)
(* doubles quads into 4-index face records and writes them as C arrays,    *)
(* and the previewer (render.py) that parses that text back and spins the  *)
(* model in a pygame loop.                                                 *)
(*                                                                         *)
(* Numbers.  Rounded coordinates (round(x, 2)) are integers in hundredths. *)
(* Raw mesh coordinates are integers, raw normals and UVs integers in      *)
(* thousandths; products and quotients are exact rationals rounded half to *)
(* even, standing for the IEEE arithmetic of the code.  The sign of a zero *)
(* is not represented (-0.0 == 0.0 as a dict key and as a parsed value).   *)
(* Angles are integers in 1/10000 degree, angular velocities in 1/10000    *)
(* degree per second, delta times in milliseconds.                         *)
(*                                                                         *)
(* Text.  A line of the .c file is a sequence of tokens: keywords, the     *)
(* pieces of an array suffix ("_uv" \o "_indices"), punctuation, single    *)
(* spaces and single digit characters.  `a in line` is a contiguous match  *)
(* of token sequences.                                                     *)
(***************************************************************************)
EXTENDS Integers, Sequences, FiniteSets, TLC

\* ------------------------------------------------------------------ bounds
\* polygons iterated by one export
MaxPolys == 2
\* iterations of the preview loop
MaxFrames == 3
\* events polled over one run of the preview loop
MaxEvents == 3
\* points handed to one call of prepare_vertices
MaxPoints == 3
\* lines of a file given to the scanner
MaxLines == 4
\* frames of a run left in Idle
MaxIdleFrames == 24

\* ----------------------------------------------------------------- helpers
Abs(x) == IF x < 0 THEN -x ELSE x

Range(s) == {s[i] : i \in 1..Len(s)}

Reverse(s) == [i \in 1..Len(s) |-> s[Len(s) + 1 - i]]

\* round(n/d, 0) for d > 0, ties to even: Python's round() on the exact quotient
RoundHalfEven(n, d) ==
    LET q == n \div d
        r == n % d
    IN  IF 2 * r < d THEN q
        ELSE IF 2 * r > d THEN q + 1
        ELSE IF q % 2 = 0 THEN q ELSE q + 1

DigitChar(d) == <<"0", "1", "2", "3", "4", "5", "6", "7", "8", "9">>[d + 1]

RECURSIVE Digits(_)
\* the decimal digits of a natural number, most significant first
Digits(n) == IF n < 10 THEN <<DigitChar(n)>> ELSE Digits(n \div 10) \o <<DigitChar(n % 10)>>

\* f"{i}" of an int
FmtInt(i) == IF i < 0 THEN <<"-">> \o Digits(-i) ELSE Digits(i)

\* f"{x}" of a float holding h/100: repr() prints the shortest decimal that
\* reads back, so 1.0 -> "1.0", 1.5 -> "1.5", 1.25 -> "1.25", 0.05 -> "0.05"
FmtFloat(h) ==
    LET a == Abs(h)
        frac == a % 100
        fd == IF frac % 10 = 0 THEN <<DigitChar(frac \div 10)>>
              ELSE <<DigitChar(frac \div 10), DigitChar(frac % 10)>>
    IN  (IF h < 0 THEN <<"-">> ELSE <<>>) \o Digits(a \div 100) \o <<".">> \o fd

RECURSIVE JoinComma(_)
\* ",".join over token sequences
JoinComma(parts) ==
    IF Len(parts) = 0 THEN <<>>
    ELSE IF Len(parts) = 1 THEN parts[1]
    ELSE parts[1] \o <<",">> \o JoinComma(Tail(parts))

\* f"{{{a},{b},...}}"
FmtTuple(parts) == <<"{">> \o JoinComma(parts) \o <<"}">>

\* ------------------------------------------------------------- the meshes
\* An evaluated mesh as the exporter reads it: mesh.vertices (v.co), the loop
\* records a polygon's loop_indices point at (vertex_index, normal, uv-layer
\* entry) and the file name the model name is taken from.
MeshBox ==
    [ name     |-> <<"cube">>,
      uv_layers |-> TRUE,
      vertices |-> << <<-2, -1, -2>>, <<2, 1, 2>> >>,
      loops    |-> << [vertex_index |-> 1, normal |-> <<0, 0, 1000>>,     uv |-> <<0, 0>>],
                      [vertex_index |-> 2, normal |-> <<577, 577, 577>>, uv |-> <<1000, 500>>] >> ]

MeshSeam ==
    [ name     |-> <<"my", "_uv", "map">>,
      uv_layers |-> TRUE,
      vertices |-> << <<0, 0, 0>>, <<1, 3, 1>> >>,
      loops    |-> << [vertex_index |-> 1, normal |-> <<0, 0, 1000>>, uv |-> <<250, 750>>],
                      [vertex_index |-> 1, normal |-> <<0, 4, 1000>>, uv |-> <<251, 750>>] >> ]

MeshPoint ==
    [ name     |-> <<"dot">>,
      uv_layers |-> TRUE,
      vertices |-> << <<1, 1, 1>>, <<1, 1, 1>> >>,
      loops    |-> << [vertex_index |-> 1, normal |-> <<0, 0, 1000>>, uv |-> <<0, 0>>],
                      [vertex_index |-> 2, normal |-> <<0, 0, 1000>>, uv |-> <<0, 0>>] >> ]

MeshBare ==
    [ name     |-> <<"bare">>,
      uv_layers |-> FALSE,
      vertices |-> << <<0, 0, 0>>, <<4, 2, 8>> >>,
      loops    |-> << [vertex_index |-> 1, normal |-> <<0, 1000, 0>>,  uv |-> <<0, 0>>],
                      [vertex_index |-> 2, normal |-> <<0, -1000, 0>>, uv |-> <<0, 0>>] >> ]

Meshes == {MeshBox, MeshSeam, MeshPoint, MeshBare}

\* a polygon's loop_indices: 3 or 4 corners
LoopIndexSeqs(m) ==
    [1..3 -> 1..Len(m.loops)] \cup [1..4 -> 1..Len(m.loops)]

\* ------------------------------------------------------ exporter constants
TEXTURE_WIDTH == 256
TEXTURE_HEIGHT == 256
\* scale_factor=3.5, in halves
ScaleFactor2 == 7


\* ------------------------------------------------------------------ state
VARIABLES
    pc,               \* where the running program is
    mesh,             \* the evaluated mesh being exported
    offset2,          \* twice the bounding-box centre (min + max per axis)
    max_dim,          \* the largest bounding-box extent
    vertex_map, normal_map, uv_map,   \* value -> index
    verts, norms, uvs,                \* the tables, first-seen order
    vertex_indices, uv_indices,       \* one 4-tuple per face record
    normal_indices,                   \* four entries per face record
    poly,             \* loop_indices of the polygon being processed
    v_idx, n_idx, uv_idx,             \* the polygon's indices so far
    npolys,           \* polygons iterated so far
    result,           \* what export_model_to_c returned
    file_exists, file,                \* cout/<name>.c on disk: its lines
    loaded,           \* what load_obj_c_model returned
    scan,             \* the scanner inside load_obj_c_model: flags, lists, exception
    lineno,           \* lines of the file the scanner has taken
    printed,          \* render_model printed the FileNotFoundError
    window_open,      \* pygame.init() and set_mode() done, pygame.quit() not yet
    screen_size,      \* screen_width, screen_height
    angle_x, angle_y, \* pitch and yaw
    angular_velocity, \* <<pitch component, yaw component>>
    is_dragging,
    last_mouse_pos,
    running,
    events,           \* what pygame.event.get() returned, not yet handled
    event,            \* the loop variable: the event handled last
    frames,           \* loop iterations begun
    polled,           \* events polled so far
    drawn,            \* frames composed on the back buffer
    presented,        \* frames flipped to the display
    rotated_vertices, \* what rotate_vertices handed to prepare_vertices
    projected_vertices,
    polylines         \* per face, the line segments drawn in the frame

exportVars == <<mesh, offset2, max_dim, vertex_map, normal_map, uv_map, verts, norms, uvs,
                vertex_indices, uv_indices, normal_indices, poly, v_idx, n_idx, uv_idx,
                npolys, result>>

diskVars == <<file_exists, file, loaded>>
scanVars == <<scan, lineno>>

renderVars == <<printed, window_open, screen_size, angle_x, angle_y, angular_velocity,
                is_dragging, last_mouse_pos, running, events, event, frames, polled, drawn,
                presented>>

projVars == <<rotated_vertices, projected_vertices, polylines>>

\* ---------------------------------------------------------------- exporter
MinOf(S) == CHOOSE x \in S : \A y \in S : x <= y
MaxOf(S) == CHOOSE x \in S : \A y \in S : x >= y

Coords(m, axis) == {m.vertices[i][axis] : i \in 1..Len(m.vertices)}

\* size_x, size_y, size_z and their max
BoxSize(m, axis) == MaxOf(Coords(m, axis)) - MinOf(Coords(m, axis))
MaxDim(m) == MaxOf({BoxSize(m, 1), BoxSize(m, 2), BoxSize(m, 3)})

\* offset, doubled: (min + max) per axis
Offset2(m) == [axis \in 1..3 |-> MinOf(Coords(m, axis)) + MaxOf(Coords(m, axis))]

\* uniform_scale = (TEXTURE_WIDTH / 2) / max_dim * scale_factor, as num/den
UniformScale(md) == [num |-> TEXTURE_WIDTH * ScaleFactor2, den |-> 4 * md]

\* round((co - offset) * uniform_scale, 2) of one axis, in hundredths
ScaledCoord(c, off2, us) == RoundHalfEven((2 * c - off2) * us.num * 100, 2 * us.den)

\* v = (round(vert.x * s, 2), round(-vert.z * s, 2), round(vert.y * s, 2))
ConvertVertex(co, off2, us) ==
    << ScaledCoord(co[1], off2[1], us),
       -ScaledCoord(co[3], off2[3], us),
       ScaledCoord(co[2], off2[2], us) >>

\* n = (round(norm.x, 2), round(norm.y, 2), round(norm.z, 2))
ConvertNormal(norm) == [i \in 1..3 |-> RoundHalfEven(norm[i], 10)]

\* uv_px = (round(uv.x * TEXTURE_WIDTH, 2), round(uv.y * TEXTURE_HEIGHT, 2))
ConvertUV(uv) ==
    << RoundHalfEven(uv[1] * TEXTURE_WIDTH * 100, 1000),
       RoundHalfEven(uv[2] * TEXTURE_HEIGHT * 100, 1000) >>

\* uv = uv_layer[loop_idx].uv if uv_layer else Vector((0.0, 0.0))
LoopUV(m, loop_idx) == IF m.uv_layers THEN m.loops[loop_idx].uv ELSE <<0, 0>>

\* unique_insert that never registers the value in the map
unique_insert_unregistered(item, item_map, item_list) ==
    IF item \in DOMAIN item_map
    THEN [index |-> item_map[item], item_map |-> item_map, item_list |-> item_list]
    ELSE [index |-> Len(item_list), item_map |-> item_map, item_list |-> Append(item_list, item)]

\* unique_insert that takes the index after the append
unique_insert_late_index(item, item_map, item_list) ==
    IF item \in DOMAIN item_map
    THEN [index |-> item_map[item], item_map |-> item_map, item_list |-> item_list]
    ELSE [index |-> Len(item_list) + 1,
          item_map |-> [x \in DOMAIN item_map \cup {item} |->
                           IF x = item THEN Len(item_list) + 1 ELSE item_map[x]],
          item_list |-> Append(item_list, item)]

\* unique_insert that appends without looking the value up
unique_insert_always(item, item_map, item_list) ==
    [index |-> Len(item_list),
     item_map |-> [x \in DOMAIN item_map \cup {item} |->
                      IF x = item THEN Len(item_list) ELSE item_map[x]],
     item_list |-> Append(item_list, item)]

\* unique_insert: the index returned and the map and list it leaves
unique_insert(item, item_map, item_list) ==
    IF item \in DOMAIN item_map
    THEN [index |-> item_map[item], item_map |-> item_map, item_list |-> item_list]
    ELSE [index |-> Len(item_list),
          item_map |-> [x \in DOMAIN item_map \cup {item} |->
                           IF x = item THEN Len(item_list) ELSE item_map[x]],
          item_list |-> Append(item_list, item)]

EmptyMap == [x \in {} |-> 0]

\* what load_obj_c_model hands back, before anything is read
NothingLoaded ==
    [ vertices |-> <<>>, normals |-> <<>>, uvs |-> <<>>, vertex_indices |-> <<>>,
      uv_indices |-> <<>>, normal_indices |-> <<>>, raised |-> "none" ]

\* coords, the bounding box, offset and uniform_scale; the division raises
\* ZeroDivisionError when every vertex coincides
ComputeScale ==
    /\ pc = "start"
    /\ offset2' = Offset2(mesh)
    /\ max_dim' = MaxDim(mesh)
    /\ pc' = IF MaxDim(mesh) = 0 THEN "raised" ELSE "polys"
    /\ UNCHANGED <<mesh, vertex_map, normal_map, uv_map, verts, norms, uvs, vertex_indices,
                   uv_indices, normal_indices, poly, v_idx, n_idx, uv_idx, npolys, result>>
    /\ UNCHANGED diskVars
    /\ UNCHANGED scanVars
    /\ UNCHANGED renderVars
    /\ UNCHANGED projVars

\* for poly in mesh.polygons: the next polygon, its index lists emptied
NextPoly(loop_indices) ==
    /\ pc = "polys"
    /\ npolys < MaxPolys
    /\ poly' = loop_indices
    /\ v_idx' = <<>>
    /\ n_idx' = <<>>
    /\ uv_idx' = <<>>
    /\ npolys' = npolys + 1
    /\ pc' = "loops"
    /\ UNCHANGED <<mesh, offset2, max_dim, vertex_map, normal_map, uv_map, verts, norms, uvs,
                   vertex_indices, uv_indices, normal_indices, result>>
    /\ UNCHANGED diskVars
    /\ UNCHANGED scanVars
    /\ UNCHANGED renderVars
    /\ UNCHANGED projVars

\* for loop_idx in poly.loop_indices: one corner, interned into the three tables
ProcessLoop ==
    /\ pc = "loops"
    /\ Len(v_idx) < Len(poly)
    /\ LET loop_idx == poly[Len(v_idx) + 1]
           v  == ConvertVertex(mesh.vertices[mesh.loops[loop_idx].vertex_index],
                               offset2, UniformScale(max_dim))
           n  == ConvertNormal(mesh.loops[loop_idx].normal)
           uv_px == ConvertUV(LoopUV(mesh, loop_idx))
           rv == unique_insert(v, vertex_map, verts)
           rn == unique_insert(n, normal_map, norms)
           ru == unique_insert(uv_px, uv_map, uvs)
       IN  /\ vertex_map' = rv.item_map
           /\ verts' = rv.item_list
           /\ normal_map' = rn.item_map
           /\ norms' = rn.item_list
           /\ uv_map' = ru.item_map
           /\ uvs' = ru.item_list
           /\ v_idx' = Append(v_idx, rv.index)
           /\ n_idx' = Append(n_idx, rn.index)
           /\ uv_idx' = Append(uv_idx, ru.index)
    /\ UNCHANGED <<pc, mesh, offset2, max_dim, vertex_indices, uv_indices, normal_indices,
                   poly, npolys, result>>
    /\ UNCHANGED diskVars
    /\ UNCHANGED scanVars
    /\ UNCHANGED renderVars
    /\ UNCHANGED projVars

\* a triangle padded with its first index
TriRecord_first(idx) == <<idx[1], idx[2], idx[3], idx[1]>>
\* the record a triangle appends: the last index doubled
TriRecord(idx) == <<idx[1], idx[2], idx[3], idx[3]>>
\* the two records a quad appends: original winding, reversed winding
QuadOriginal(idx) == <<idx[1], idx[2], idx[3], idx[4]>>
\* a reversed winding that keeps the first corner in place
QuadReversed_rotated(idx) == <<idx[1], idx[4], idx[3], idx[2]>>
QuadReversed(idx) == <<idx[4], idx[3], idx[2], idx[1]>>

\* a quad kept as one record, reversed winding only
FaceRecords_single(idx) ==
    IF Len(idx) = 3 THEN <<TriRecord(idx)>>
    ELSE IF Len(idx) = 4 THEN <<QuadReversed(idx)>>
    ELSE <<>>
\* what one polygon appends to an index list of 4-tuples
FaceRecords(idx) ==
    IF Len(idx) = 3 THEN <<TriRecord(idx)>>
    ELSE IF Len(idx) = 4 THEN <<QuadOriginal(idx), QuadReversed(idx)>>
    ELSE <<>>

\* what one polygon extends normal_indices with
NormalEntries(idx) ==
    IF Len(idx) = 3 THEN TriRecord(idx)
    ELSE IF Len(idx) = 4 THEN QuadOriginal(idx) \o QuadReversed(idx)
    ELSE <<>>

\* if len(v_idx) == 3: ... elif len(v_idx) == 4: ...  (the f-strings are
\* rendered by FormatModel; the lists hold the numbers they are rendered from)
EmitFace ==
    /\ pc = "loops"
    /\ Len(v_idx) = Len(poly)
    /\ vertex_indices' = vertex_indices \o FaceRecords(v_idx)
    /\ uv_indices' = uv_indices \o FaceRecords(uv_idx)
    /\ normal_indices' = normal_indices \o NormalEntries(n_idx)
    /\ pc' = "polys"
    /\ UNCHANGED <<mesh, offset2, max_dim, vertex_map, normal_map, uv_map, verts, norms, uvs,
                   poly, v_idx, n_idx, uv_idx, npolys, result>>
    /\ UNCHANGED diskVars
    /\ UNCHANGED scanVars
    /\ UNCHANGED renderVars
    /\ UNCHANGED projVars

\* ------------------------------------------------------------- serializer
\* ',\n  '.join(entries) placed after the template's two leading spaces: one
\* line per entry, a comma closing every line but the last
JoinLines(entries) ==
    IF Len(entries) = 0 THEN << <<" ", " ">> >>
    ELSE [i \in 1..Len(entries) |->
             <<" ", " ">> \o entries[i] \o (IF i < Len(entries) THEN <<",">> ELSE <<>>)]

\* "<TYPE> {model_name}_<suffix>[] = {", the entries, "}; " and a blank line
ArrayBlock(type, model_name, suffix, entries) ==
    << <<type, " ">> \o model_name \o suffix \o <<"[]", " ", "=", " ", "{">> >>
    \o JoinLines(entries)
    \o << <<"}", ";", " ">> >>

\* verts_str, norms_str, uvs_str and the three index strings, entry by entry
VertEntries(tbl) == [i \in 1..Len(tbl) |-> FmtTuple([k \in 1..Len(tbl[i]) |-> FmtFloat(tbl[i][k])])]
IndexEntries(lst) == [i \in 1..Len(lst) |-> FmtTuple([k \in 1..Len(lst[i]) |-> FmtInt(lst[i][k])])]
ScalarEntries(lst) == [i \in 1..Len(lst) |-> FmtInt(lst[i])]

\* c_content, as the lines a reader of the file gets
FormatModel(model_name, vs, ns, us, vi, ui, ni) ==
    << <<"#include", " ", "<psxgte.h>">>,
       <<"#include", " ", "\"../display.h\"">>,
       <<>>,
       <<"int", " ">> \o model_name \o <<"_num_faces", " ", "=", " ">> \o FmtInt(Len(vi))
           \o <<";", " ", " ", "//", " ">> \o model_name \o <<" ", "face", " ", "count">>,
       <<>> >>
    \o ArrayBlock("SVECTOR", model_name, <<"_verts">>, VertEntries(vs)) \o << <<>> >>
    \o ArrayBlock("SVECTOR", model_name, <<"_norms">>, VertEntries(ns)) \o << <<>> >>
    \o ArrayBlock("INDEX", model_name, <<"_vertex", "_indices">>, IndexEntries(vi)) \o << <<>> >>
    \o ArrayBlock("INDEX", model_name, <<"_uv", "_indices">>, IndexEntries(ui)) \o << <<>> >>
    \o ArrayBlock("int", model_name, <<"_normal", "_indices">>, ScalarEntries(ni)) \o << <<>> >>
    \o ArrayBlock("SVECTOR", model_name, <<"_uv">>, VertEntries(us))

\* the polygon loop is over: c_content is built and written to filepath;
\* open()/write() may fail, and the failure is caught and reported
WriteFile(ok) ==
    /\ pc = "polys"
    /\ IF ok
       THEN /\ file' = FormatModel(mesh.name, verts, norms, uvs,
                                   vertex_indices, uv_indices, normal_indices)
            /\ file_exists' = TRUE
            /\ result' = "FINISHED"
            /\ pc' = "written"
       ELSE /\ UNCHANGED <<file, file_exists>>
            /\ result' = "CANCELLED"
            /\ pc' = "cancelled"
    /\ UNCHANGED <<mesh, offset2, max_dim, vertex_map, normal_map, uv_map, verts, norms, uvs,
                   vertex_indices, uv_indices, normal_indices, poly, v_idx, n_idx, uv_idx,
                   npolys, loaded>>
    /\ UNCHANGED scanVars
    /\ UNCHANGED renderVars
    /\ UNCHANGED projVars

\* ------------------------------------------------------------------ parser
Whitespace == {" "}
DigitChars == {"0", "1", "2", "3", "4", "5", "6", "7", "8", "9"}

RECURSIVE FirstKept(_, _, _)
\* the first position from i on whose token is not in chars (Len(s)+1: none)
FirstKept(s, chars, i) ==
    IF i <= Len(s) /\ s[i] \in chars THEN FirstKept(s, chars, i + 1) ELSE i

RECURSIVE LastKept(_, _, _)
\* the last position up to i whose token is not in chars (0: none)
LastKept(s, chars, i) ==
    IF i >= 1 /\ s[i] \in chars THEN LastKept(s, chars, i - 1) ELSE i

\* str.strip(chars)
Strip(s, chars) == SubSeq(s, FirstKept(s, chars, 1), LastKept(s, chars, Len(s)))

\* pat in line
Contains(line, pat) ==
    \E i \in 1..(Len(line) - Len(pat) + 1) : \A j \in 1..Len(pat) : line[i + j - 1] = pat[j]

\* line.startswith(pat)
StartsWith(line, pat) == Len(line) >= Len(pat) /\ \A j \in 1..Len(pat) : line[j] = pat[j]

RECURSIVE SplitFrom(_, _, _)
SplitFrom(s, i, cur) ==
    IF i > Len(s) THEN <<cur>>
    ELSE IF s[i] = "," THEN <<cur>> \o SplitFrom(s, i + 1, <<>>)
    ELSE SplitFrom(s, i + 1, Append(cur, s[i]))

\* str.split(",")
Split(s) == SplitFrom(s, 1, <<>>)

DigitVal(ch) == CHOOSE d \in 0..9 : DigitChar(d) = ch

RECURSIVE ParseNat(_)
ParseNat(digs) ==
    IF Len(digs) = 0 THEN 0
    ELSE 10 * ParseNat(SubSeq(digs, 1, Len(digs) - 1)) + DigitVal(digs[Len(digs)])

AllDigits(s) == \A i \in 1..Len(s) : s[i] \in DigitChars

Unsigned(s) == IF Len(s) > 0 /\ s[1] \in {"-", "+"} THEN Tail(s) ELSE s
Sign(s) == IF Len(s) > 0 /\ s[1] = "-" THEN -1 ELSE 1

\* int(part) succeeds: surrounding blanks, an optional sign, one digit or more
IsInt(part) ==
    LET u == Unsigned(Strip(part, Whitespace))
    IN  Len(u) > 0 /\ AllDigits(u)

ParseInt(part) ==
    LET t == Strip(part, Whitespace)
    IN  Sign(t) * ParseNat(Unsigned(t))

\* where the "." of a decimal is (0: none)
DotAt(u) == IF \E i \in 1..Len(u) : u[i] = "." THEN CHOOSE i \in 1..Len(u) : u[i] = "." ELSE 0

\* float(part) succeeds: blanks, a sign, digits with at most one "." among
\* them and a digit on one side of it at least
IsFloat(part) ==
    LET u == Unsigned(Strip(part, Whitespace))
        d == DotAt(u)
        ip == IF d = 0 THEN u ELSE SubSeq(u, 1, d - 1)
        fp == IF d = 0 THEN <<>> ELSE SubSeq(u, d + 1, Len(u))
    IN  AllDigits(ip) /\ AllDigits(fp) /\ Len(ip) + Len(fp) > 0

\* float(part), in hundredths (digits past the second decimal are rounded)
ParseFloat(part) ==
    LET t == Strip(part, Whitespace)
        u == Unsigned(t)
        d == DotAt(u)
        ip == IF d = 0 THEN u ELSE SubSeq(u, 1, d - 1)
        fp == IF d = 0 THEN <<>> ELSE SubSeq(u, d + 1, Len(u))
        f2 == IF Len(fp) = 0 THEN 0
              ELSE IF Len(fp) = 1 THEN 10 * ParseNat(fp)
              ELSE IF Len(fp) = 2 THEN ParseNat(fp)
              ELSE RoundHalfEven(ParseNat(SubSeq(fp, 1, 3)), 10)
    IN  Sign(t) * (100 * ParseNat(ip) + f2)

\* the six sections in the order the scanner tests them: the flag, the two
\* substrings that open the section, the list it fills and how a record is read
Sections ==
    << [flag |-> "in_vertex_array",   kw |-> <<"SVECTOR">>, suffix |-> <<"_verts">>,
        out |-> "vertices",       kind |-> "float", need |-> 3],
       [flag |-> "in_normal_array",   kw |-> <<"SVECTOR">>, suffix |-> <<"_norms">>,
        out |-> "normals",        kind |-> "float", need |-> 3],
       [flag |-> "in_uv_array",       kw |-> <<"SVECTOR">>, suffix |-> <<"_uv">>,
        out |-> "uvs",            kind |-> "float", need |-> 2],
       [flag |-> "in_vertex_indices", kw |-> <<"INDEX">>,   suffix |-> <<"_vertex", "_indices">>,
        out |-> "vertex_indices", kind |-> "int_append", need |-> 0],
       [flag |-> "in_uv_indices",     kw |-> <<"INDEX">>,   suffix |-> <<"_uv", "_indices">>,
        out |-> "uv_indices",     kind |-> "int_append", need |-> 0],
       [flag |-> "in_normal_indices", kw |-> <<"int">>,     suffix |-> <<"_normal", "_indices">>,
        out |-> "normal_indices", kind |-> "int_extend_try", need |-> 0] >>

FlagNames == {Sections[k].flag : k \in 1..Len(Sections)}
ListNames == {Sections[k].out : k \in 1..Len(Sections)}

\* the scanner's state when the file is opened
ScanStart ==
    [ flags |-> [f \in FlagNames |-> FALSE],
      out |-> [l \in ListNames |-> <<>>],
      raised |-> "none" ]

\* parts = line.strip("{} ,").split(",")
RecordParts(line) == Split(Strip(line, {"{", "}", " ", ","}))

\* one data record of a section: what the `elif "{" in line and "}" in line`
\* branch does with it
ReadRecord(st, sec, line) ==
    LET parts == RecordParts(line)
    IN  IF sec.kind = "float"
        THEN IF Len(parts) >= sec.need
             THEN IF \A k \in 1..sec.need : IsFloat(parts[k])
                  THEN [st EXCEPT !.out[sec.out] =
                           Append(@, [k \in 1..sec.need |-> ParseFloat(parts[k])])]
                  ELSE [st EXCEPT !.raised = "ValueError"]
             ELSE st
        ELSE IF sec.kind = "int_append"
        THEN IF \A k \in 1..Len(parts) : IsInt(parts[k])
             THEN [st EXCEPT !.out[sec.out] =
                      Append(@, [k \in 1..Len(parts) |-> ParseInt(parts[k])])]
             ELSE [st EXCEPT !.raised = "ValueError"]
        ELSE IF \A k \in 1..Len(parts) : IsInt(parts[k])
             THEN [st EXCEPT !.out[sec.out] = @ \o [k \in 1..Len(parts) |-> ParseInt(parts[k])]]
             ELSE st

\* the body of `if in_<section>:`
InSection(st, sec, line) ==
    IF StartsWith(line, <<"}", ";">>)
    THEN [st EXCEPT !.flags[sec.flag] = FALSE]
    ELSE IF Contains(line, <<"{">>) /\ Contains(line, <<"}">>)
    THEN ReadRecord(st, sec, line)
    ELSE st

RECURSIVE ScanSections(_, _, _)
\* the section tests from the k-th on, for one stripped line: a header sets
\* its flag and `continue`s, anything else falls through to the next test
\* (an exception ends the scan)
ScanSections(st, line, k) ==
    IF k > Len(Sections) \/ st.raised # "none" THEN st
    ELSE IF Contains(line, Sections[k].kw) /\ Contains(line, Sections[k].suffix)
    THEN [st EXCEPT !.flags[Sections[k].flag] = TRUE]
    ELSE ScanSections(IF st.flags[Sections[k].flag] THEN InSection(st, Sections[k], line) ELSE st,
                      line, k + 1)

\* one iteration of `for line in file`
ScanLine(st, raw) == ScanSections(st, Strip(raw, Whitespace), 1)

RECURSIVE ScanLines(_, _, _)
ScanLines(st, lines, i) ==
    IF i > Len(lines) \/ st.raised # "none" THEN st
    ELSE ScanLines(ScanLine(st, lines[i]), lines, i + 1)

\* load_obj_c_model: the six lists, or the exception that leaves it
load_obj_c_model(exists, lines) ==
    IF ~exists THEN [NothingLoaded EXCEPT !.raised = "FileNotFoundError"]
    ELSE LET st == ScanLines(ScanStart, lines, 1)
         IN  [ vertices |-> st.out["vertices"], normals |-> st.out["normals"],
               uvs |-> st.out["uvs"], vertex_indices |-> st.out["vertex_indices"],
               uv_indices |-> st.out["uv_indices"],
               normal_indices |-> st.out["normal_indices"], raised |-> st.raised ]

\* the previewer reads back the file the exporter wrote
LoadExported ==
    /\ pc = "written"
    /\ loaded' = load_obj_c_model(file_exists, file)
    /\ pc' = "loaded"
    /\ UNCHANGED exportVars
    /\ UNCHANGED <<file_exists, file>>
    /\ UNCHANGED scanVars
    /\ UNCHANGED renderVars
    /\ UNCHANGED projVars

\* ------------------------------------------------- the export specification
\* the exporter before its first statement
ExportStart ==
    /\ offset2 = <<0, 0, 0>>
    /\ max_dim = 0
    /\ vertex_map = EmptyMap
    /\ normal_map = EmptyMap
    /\ uv_map = EmptyMap
    /\ verts = <<>>
    /\ norms = <<>>
    /\ uvs = <<>>
    /\ vertex_indices = <<>>
    /\ uv_indices = <<>>
    /\ normal_indices = <<>>
    /\ poly = <<>>
    /\ v_idx = <<>>
    /\ n_idx = <<>>
    /\ uv_idx = <<>>
    /\ npolys = 0
    /\ result = "none"

\* the events pygame.event.get() hands out
Event(type, button, pos, size) == [type |-> type, button |-> button, pos |-> pos, size |-> size]

\* `event` before the first iteration of the event loop
NoEvent == Event("none", 0, <<0, 0>>, <<0, 0>>)

\* screen_width, screen_height = 800, 600
StartSize == <<800, 600>>

\* the previewer before its first statement
RenderStart ==
    /\ printed = FALSE
    /\ window_open = FALSE
    /\ angle_x = 0
    /\ angle_y = 0
    /\ angular_velocity = <<0, 0>>
    /\ is_dragging = FALSE
    /\ last_mouse_pos = <<0, 0>>
    /\ running = FALSE
    /\ events = <<>>
    /\ event = NoEvent
    /\ frames = 0
    /\ polled = 0
    /\ drawn = 0
    /\ presented = 0

\* no point list handed to the projection yet
ProjectStart ==
    /\ rotated_vertices = <<>>
    /\ projected_vertices = <<>>
    /\ polylines = <<>>

Init ==
    /\ pc = "start"
    /\ mesh \in Meshes
    /\ ExportStart
    /\ file_exists = FALSE
    /\ file = <<>>
    /\ loaded = NothingLoaded
    /\ scan = ScanStart
    /\ lineno = 0
    /\ RenderStart
    /\ screen_size = StartSize
    /\ ProjectStart

vars == <<pc, mesh, offset2, max_dim, vertex_map, normal_map, uv_map, verts, norms, uvs,
          vertex_indices, uv_indices, normal_indices, poly, v_idx, n_idx, uv_idx,
          npolys, result, file_exists, file, loaded, scan, lineno,
          printed, window_open, screen_size, angle_x, angle_y, angular_velocity,
          is_dragging, last_mouse_pos, running, events, event, frames, polled, drawn,
          presented, rotated_vertices, projected_vertices, polylines>>

Next ==
    \/ ComputeScale
    \/ \E loop_indices \in LoopIndexSeqs(mesh) : NextPoly(loop_indices)
    \/ ProcessLoop
    \/ EmitFace
    \/ \E ok \in BOOLEAN : WriteFile(ok)

Spec == Init /\ [][Next]_vars

\* the exporter, then the previewer's loader on the file it wrote
NextRoundTrip ==
    \/ Next
    \/ LoadExported

SpecRoundTrip == Init /\ [][NextRoundTrip]_vars

\* ------------------------------------------------------------ the previewer
\* angles in 1/10000 degree
Deg180 == 1800000
Deg360 == 3600000
\* rotation_speed = 0.1 degree per pixel
rotation_speed == 1000
\* friction = .99
FrictionNum == 99
FrictionDen == 100
\* angular_velocity = [0.0, 0.3] at start, and the 0.3 the yaw spin is reset to
SpinFloor == 3000
\* np.linalg.norm(angular_velocity) < 0.2
LowThreshold == 2000
\* np.linalg.norm(angular_velocity) < 0.05
StopThreshold == 500
\* abs(angle_x) > 0.1, and the 0.1 of one flattening step
LevelEps == 1000
LevelStep == 1000

\* clock.tick(60) / 1000.0: the milliseconds a 60 Hz tick returns
DtSet == {16, 17}

\* the files cout/<base_name>.c may hold when render_model starts
SampleFile ==
    FormatModel(<<"cube">>,
                << <<-22400, 22400, -11200>>, <<22400, -22400, 11200>> >>,
                << <<0, 0, 100>> >>,
                << <<0, 0>>, <<25600, 12800>> >>,
                << <<0, 1, 1, 1>> >>, << <<0, 1, 1, 1>> >>, <<0, 0, 0, 0>>)

EmptyModelFile == FormatModel(<<"cube">>, <<>>, <<>>, <<>>, <<>>, <<>>, <<>>)

\* two vertices 900 apart in depth: centred and scaled, the far one is on the
\* plane the projection guards
FarFile ==
    FormatModel(<<"cube">>,
                << <<0, 0, -45000>>, <<0, 0, 45000>> >>,
                << <<0, 0, 100>> >>,
                << <<0, 0>>, <<25600, 12800>> >>,
                << <<0, 1, 1, 1>> >>, << <<0, 1, 1, 1>> >>, <<0, 0, 0, 0>>)

\* three vertices, the first of them on the guarded plane once centred and
\* scaled, and a face over the first two
NearFile ==
    FormatModel(<<"cube">>,
                << <<0, 0, 45000>>, <<10000, 0, -22500>>, <<-10000, 0, -22500>> >>,
                << <<0, 0, 100>> >>,
                << <<0, 0>>, <<25600, 12800>> >>,
                << <<0, 1, 1, 1>> >>, << <<0, 1, 1, 1>> >>, <<0, 0, 0, 0>>)

\* a vertex-index record that int() rejects
BrokenFile ==
    << <<"INDEX", " ", "cube", "_vertex", "_indices", "[]", " ", "=", " ", "{">>,
       <<" ", " ", "{", "0", ",", "1", ",", "x", ",", "1", "}">>,
       <<"}", ";", " ">> >>

DiskChoices ==
    { [exists |-> FALSE, lines |-> <<>>],
      [exists |-> TRUE, lines |-> SampleFile],
      [exists |-> TRUE, lines |-> EmptyModelFile],
      [exists |-> TRUE, lines |-> FarFile],
      [exists |-> TRUE, lines |-> NearFile],
      [exists |-> TRUE, lines |-> BrokenFile] }

EventPool ==
    { Event("QUIT", 0, <<0, 0>>, <<0, 0>>),
      Event("VIDEORESIZE", 0, <<0, 0>>, <<1024, 768>>),
      Event("MOUSEBUTTONDOWN", 1, <<400, 300>>, <<0, 0>>),
      Event("MOUSEBUTTONDOWN", 3, <<400, 300>>, <<0, 0>>),
      Event("MOUSEBUTTONUP", 1, <<400, 300>>, <<0, 0>>),
      Event("MOUSEBUTTONUP", 3, <<400, 300>>, <<0, 0>>),
      Event("MOUSEMOTION", 0, <<1400, 2300>>, <<0, 0>>),
      Event("MOUSEMOTION", 0, <<400, 300>>, <<0, 0>>) }

EventSeqs(n) == UNION {[1..k -> EventPool] : k \in 0..n}

\* np.linalg.norm(v) < t, for t > 0
NormBelow(v, t) ==
    /\ Abs(v[1]) < t
    /\ Abs(v[2]) < t
    /\ v[1] * v[1] + v[2] * v[2] < t * t

\* np.sign
SignOf(x) == IF x > 0 THEN 1 ELSE IF x < 0 THEN -1 ELSE 0

\* event.type == QUIT
Quits_on_resize(e) == e.type \in {"QUIT", "VIDEORESIZE"}
Quits(e) == e.type = "QUIT"

\* event.button == 1
LeftButton_any(e) == TRUE
LeftButton(e) == e.button = 1

\* except FileNotFoundError
Caught_value_error(raised) == raised = "ValueError"
Caught(raised) == raised = "FileNotFoundError"
\* ------------------------------------------------------------ the projection
\* camera_position = [0.0, 0.0, 5000.0], camera_distance = 500
camera_position == <<0, 0, 500000>>
camera_distance == 50000

\* int() of the quotient n/d: towards zero
TruncDiv(n, d) ==
    LET q == Abs(n) \div Abs(d)
    IN  IF (n < 0) # (d < 0) THEN -q ELSE q

\* a guard that forgets the view distance
ZGuard_origin(z, cd) == z # 0
\* if z + camera_distance != 0
ZGuard(z, cd) == z + cd # 0

\* (projected_x, projected_y) of a camera-relative point, den = z + camera_distance:
\* int(x / den * w / 2 + w / 2), int(-y / den * h / 2 + h / 2)
ScreenPoint(x, y, den, w, h) ==
    << TruncDiv(x * w + w * den, 2 * den), TruncDiv(-y * h + h * den, 2 * den) >>

RECURSIVE ProjectFrom(_, _, _, _, _, _)
\* the loop of prepare_vertices from the i-th vertex on: the points appended,
\* or the division by zero that ends it
ProjectFrom(vertices, i, w, h, cam, cd) ==
    IF i > Len(vertices) THEN [out |-> <<>>, raised |-> FALSE]
    ELSE LET x == vertices[i][1] - cam[1]
             y == vertices[i][2] - cam[2]
             z == vertices[i][3] - cam[3]
             rest == ProjectFrom(vertices, i + 1, w, h, cam, cd)
         IN  IF ZGuard(z, cd)
             THEN IF z + cd = 0
                  THEN [out |-> <<>>, raised |-> TRUE]
                  ELSE [out |-> <<ScreenPoint(x, y, z + cd, w, h)>> \o rest.out,
                        raised |-> rest.raised]
             ELSE rest

prepare_vertices(vertices, screen_width, screen_height, cam, cd) ==
    ProjectFrom(vertices, 1, screen_width, screen_height, cam, cd)

\* rotated points: on the guard plane, at the origin side, behind it, just past it
PointPool ==
    { <<0, 0, 450000>>, <<100000, 50000, 0>>, <<-224000, 224000, -112000>>,
      <<30000, -40000, 450100>> }

PointLists == UNION {[1..n -> PointPool] : n \in 0..MaxPoints}

\* the window as opened, and as resized
ScreenSizes == {StartSize, <<1024, 768>>}

\* vertices -= vertices.mean(axis=0); vertices *= scale_factor (10), to the
\* nearest hundredth
CentredVertices(vs) ==
    LET n == Len(vs)
        Sum(k) == LET RECURSIVE Upto(_)
                      Upto(i) == IF i = 0 THEN 0 ELSE Upto(i - 1) + vs[i][k]
                  IN  Upto(n)
    IN  [i \in 1..n |-> [k \in 1..3 |-> RoundHalfEven((n * vs[i][k] - Sum(k)) * 10, n)]]

\* the array turned half way round the vertical axis
HalfTurn(vs) == [i \in 1..Len(vs) |-> <<-vs[i][1], vs[i][2], -vs[i][3]>>]

\* the arrays rotate_vertices can return.  At angle 0 about both axes the
\* cosines are 1 and the sines 0, and the array comes back as it is; the
\* sines and cosines of other angles are not computed, and the result is
\* then one of two rigid images of the array.
rotate_vertices(vs, ax, ay) ==
    IF ax = 0 /\ ay = 0 THEN {vs} ELSE {vs, HalfTurn(vs)}

\* list[i], as Python indexes: from the end when i is negative
PyIndex(list, i) == IF i >= 0 THEN list[i + 1] ELSE list[Len(list) + i + 1]

RECURSIVE FacePointsFrom(_, _, _)
FacePointsFrom(face, k, projected) ==
    IF k > Len(face) THEN <<>>
    ELSE IF face[k] < Len(projected)
         THEN <<PyIndex(projected, face[k])>> \o FacePointsFrom(face, k + 1, projected)
         ELSE FacePointsFrom(face, k + 1, projected)

\* pts = [projected_vertices[i] for i in face if i < len(projected_vertices)]
FacePoints(face, projected) == FacePointsFrom(face, 1, projected)

\* if len(pts) > 1: a line from each point to the next, the last to the first
Segments(pts) ==
    IF Len(pts) > 1 THEN [i \in 1..Len(pts) |-> <<pts[i], pts[(i % Len(pts)) + 1]>>]
    ELSE <<>>

\* projected_vertices[i] for a face index below -len(projected_vertices):
\* IndexError (an index at or above the length is filtered out, one in
\* -len..-1 counts from the end)
FaceRaises(faces, projected) ==
    \E f \in 1..Len(faces) : \E k \in 1..Len(faces[f]) :
        faces[f][k] < -Len(projected)

\* try: load_obj_c_model(...)  except FileNotFoundError: print; return
\* (any other exception leaves render_model)
LoadModel ==
    /\ pc = "start"
    /\ LET r == load_obj_c_model(file_exists, file)
       IN  /\ loaded' = r
           /\ printed' = Caught(r.raised)
           /\ pc' = IF Caught(r.raised) THEN "returned"
                    ELSE IF r.raised # "none" THEN "raised"
                    ELSE "setup"
    /\ UNCHANGED exportVars
    /\ UNCHANGED projVars
    /\ UNCHANGED <<file_exists, file>>
    /\ UNCHANGED scanVars
    /\ UNCHANGED <<window_open, screen_size, angle_x, angle_y, angular_velocity, is_dragging,
                   last_mouse_pos, running, events, event, frames, polled, drawn, presented>>

\* pygame.init() ... running = True: the window and the loop's variables
\* (the vertex array, centred and scaled, only feeds the frame's picture)
Setup ==
    /\ pc = "setup"
    /\ window_open' = TRUE
    /\ screen_size' = StartSize
    /\ angle_x' = 0
    /\ angle_y' = 0
    /\ angular_velocity' = <<0, SpinFloor>>
    /\ is_dragging' = FALSE
    /\ last_mouse_pos' = <<0, 0>>
    /\ running' = TRUE
    /\ pc' = "while"
    /\ UNCHANGED exportVars
    /\ UNCHANGED projVars
    /\ UNCHANGED diskVars
    /\ UNCHANGED scanVars
    /\ UNCHANGED <<printed, events, event, frames, polled, drawn, presented>>

\* while running: dt = clock.tick(60) / 1000.0; pygame.event.get()
BeginFrame(evs) ==
    /\ pc = "while"
    /\ running
    /\ frames < MaxFrames
    /\ polled + Len(evs) <= MaxEvents
    /\ events' = evs
    /\ frames' = frames + 1
    /\ polled' = polled + Len(evs)
    /\ pc' = "events"
    /\ UNCHANGED exportVars
    /\ UNCHANGED projVars
    /\ UNCHANGED diskVars
    /\ UNCHANGED scanVars
    /\ UNCHANGED <<printed, window_open, screen_size, angle_x, angle_y, angular_velocity,
                   is_dragging, last_mouse_pos, running, event, drawn, presented>>

\* the two components the other way round
DragVelocity_swapped(dx, dy) == <<-dx * rotation_speed, dy * rotation_speed>>
\* angular_velocity[1] = -dx * rotation_speed; angular_velocity[0] = dy * rotation_speed
DragVelocity(dx, dy) == <<dy * rotation_speed, -dx * rotation_speed>>

\* the body of `for event in pygame.event.get()` for the next event
HandleEvent ==
    /\ pc = "events"
    /\ events # <<>>
    /\ LET e == Head(events)
           dx == e.pos[1] - last_mouse_pos[1]
           dy == e.pos[2] - last_mouse_pos[2]
       IN  IF Quits(e)
           THEN /\ running' = FALSE
                /\ UNCHANGED <<screen_size, is_dragging, last_mouse_pos, angle_x, angle_y,
                               angular_velocity>>
           ELSE IF e.type = "VIDEORESIZE"
           THEN /\ screen_size' = e.size
                /\ UNCHANGED <<running, is_dragging, last_mouse_pos, angle_x, angle_y,
                               angular_velocity>>
           ELSE IF e.type = "MOUSEBUTTONDOWN" /\ LeftButton(e)
           THEN /\ is_dragging' = TRUE
                /\ last_mouse_pos' = e.pos
                /\ UNCHANGED <<running, screen_size, angle_x, angle_y, angular_velocity>>
           ELSE IF e.type = "MOUSEBUTTONUP" /\ LeftButton(e)
           THEN /\ is_dragging' = FALSE
                /\ UNCHANGED <<running, screen_size, last_mouse_pos, angle_x, angle_y,
                               angular_velocity>>
           ELSE IF e.type = "MOUSEMOTION" /\ is_dragging
           THEN /\ angle_y' = angle_y - dx * rotation_speed
                /\ angle_x' = angle_x + dy * rotation_speed
                /\ angular_velocity' = DragVelocity(dx, dy)
                /\ last_mouse_pos' = e.pos
                /\ UNCHANGED <<running, screen_size, is_dragging>>
           ELSE UNCHANGED <<running, screen_size, is_dragging, last_mouse_pos, angle_x,
                            angle_y, angular_velocity>>
    /\ events' = Tail(events)
    /\ event' = Head(events)
    /\ UNCHANGED pc
    /\ UNCHANGED exportVars
    /\ UNCHANGED projVars
    /\ UNCHANGED diskVars
    /\ UNCHANGED scanVars
    /\ UNCHANGED <<printed, window_open, frames, polled, drawn, presented>>

\* angular_velocity *= friction
Decay(v) ==
    << RoundHalfEven(v[1] * FrictionNum, FrictionDen),
       RoundHalfEven(v[2] * FrictionNum, FrictionDen) >>

\* a velocity left to die out
KeepSpinning_never(v) == v
\* if np.linalg.norm(angular_velocity) < 0.2: angular_velocity[1] = 0.3
KeepSpinning(v) == IF NormBelow(v, LowThreshold) THEN <<v[1], SpinFloor>> ELSE v

\* if not is_dragging: integrate the velocity over dt, decay it, keep it spinning
Momentum(dt) ==
    /\ pc = "events"
    /\ events = <<>>
    /\ IF ~is_dragging
       THEN /\ angle_x' = angle_x + RoundHalfEven(angular_velocity[1] * dt, 1000)
            /\ angle_y' = angle_y + RoundHalfEven(angular_velocity[2] * dt, 1000)
            /\ angular_velocity' = KeepSpinning(Decay(angular_velocity))
       ELSE UNCHANGED <<angle_x, angle_y, angular_velocity>>
    /\ pc' = "level"
    /\ UNCHANGED exportVars
    /\ UNCHANGED projVars
    /\ UNCHANGED diskVars
    /\ UNCHANGED scanVars
    /\ UNCHANGED <<printed, window_open, screen_size, is_dragging, last_mouse_pos, running,
                   events, event, frames, polled, drawn, presented>>

\* a flattening that stops a hair short of level
Flatten_nearly(ax) == IF Abs(ax) > LevelEps THEN ax - SignOf(ax) * LevelStep ELSE SignOf(ax)
\* if abs(angle_x) > 0.1: angle_x -= np.sign(angle_x) * 0.1  else: angle_x = 0
Flatten(ax) == IF Abs(ax) > LevelEps THEN ax - SignOf(ax) * LevelStep ELSE 0

\* the two flattening blocks: the second runs when the velocity is under the
\* stopping threshold, and stops the spin once the pitch is level
AutoLevel ==
    /\ pc = "level"
    /\ LET ax1 == Flatten(angle_x)
       IN  IF NormBelow(angular_velocity, StopThreshold)
           THEN /\ angle_x' = Flatten(ax1)
                /\ angular_velocity' = IF Abs(ax1) > LevelEps THEN angular_velocity ELSE <<0, 0>>
           ELSE /\ angle_x' = ax1
                /\ UNCHANGED angular_velocity
    /\ pc' = "wrap"
    /\ UNCHANGED exportVars
    /\ UNCHANGED projVars
    /\ UNCHANGED diskVars
    /\ UNCHANGED scanVars
    /\ UNCHANGED <<printed, window_open, screen_size, angle_y, is_dragging, last_mouse_pos,
                   running, events, event, frames, polled, drawn, presented>>

\* a wrap that forgets the second statement
Wrap_modulo_only(ay) == ay % Deg360
\* angle_y %= 360; if angle_y > 180: angle_y -= 360
Wrap(ay) == IF (ay % Deg360) > Deg180 THEN (ay % Deg360) - Deg360 ELSE ay % Deg360

WrapYaw ==
    /\ pc = "wrap"
    /\ angle_y' = Wrap(angle_y)
    /\ pc' = "draw"
    /\ UNCHANGED exportVars
    /\ UNCHANGED projVars
    /\ UNCHANGED diskVars
    /\ UNCHANGED scanVars
    /\ UNCHANGED <<printed, window_open, screen_size, angle_x, angular_velocity, is_dragging,
                   last_mouse_pos, running, events, event, frames, polled, drawn, presented>>

\* rotate, project, clear the screen, draw the faces and the caption
Draw ==
    /\ pc = "draw"
    /\ \E rotated \in rotate_vertices(CentredVertices(loaded.vertices), angle_x, angle_y) :
           LET r == prepare_vertices(rotated, screen_size[1], screen_size[2],
                                     camera_position, camera_distance)
               raises == r.raised \/ FaceRaises(loaded.vertex_indices, r.out)
           IN  /\ rotated_vertices' = rotated
               /\ projected_vertices' = IF r.raised THEN projected_vertices ELSE r.out
               /\ polylines' = IF raises THEN polylines
                                ELSE [f \in 1..Len(loaded.vertex_indices) |->
                                         Segments(FacePoints(loaded.vertex_indices[f], r.out))]
               /\ drawn' = IF raises THEN drawn ELSE drawn + 1
               /\ pc' = IF raises THEN "raised" ELSE "flip"
    /\ UNCHANGED exportVars
    /\ UNCHANGED diskVars
    /\ UNCHANGED scanVars
    /\ UNCHANGED <<printed, window_open, screen_size, angle_x, angle_y, angular_velocity,
                   is_dragging, last_mouse_pos, running, events, event, frames, polled, presented>>

\* pygame.display.flip()
Flip ==
    /\ pc = "flip"
    /\ presented' = drawn
    /\ pc' = "while"
    /\ UNCHANGED exportVars
    /\ UNCHANGED projVars
    /\ UNCHANGED diskVars
    /\ UNCHANGED scanVars
    /\ UNCHANGED <<printed, window_open, screen_size, angle_x, angle_y, angular_velocity,
                   is_dragging, last_mouse_pos, running, events, event, frames, polled, drawn>>

\* `while running` is false: pygame.quit()
ExitLoop ==
    /\ pc = "while"
    /\ ~running
    /\ window_open' = FALSE
    /\ pc' = "exited"
    /\ UNCHANGED exportVars
    /\ UNCHANGED projVars
    /\ UNCHANGED diskVars
    /\ UNCHANGED scanVars
    /\ UNCHANGED <<printed, screen_size, angle_x, angle_y, angular_velocity, is_dragging,
                   last_mouse_pos, running, events, event, frames, polled, drawn, presented>>

InitRender ==
    /\ pc = "start"
    /\ mesh = MeshBox
    /\ ExportStart
    /\ \E d \in DiskChoices : file_exists = d.exists /\ file = d.lines
    /\ loaded = NothingLoaded
    /\ scan = ScanStart
    /\ lineno = 0
    /\ RenderStart
    /\ screen_size = StartSize
    /\ ProjectStart

NextRender ==
    \/ LoadModel
    \/ Setup
    \/ \E evs \in EventSeqs(MaxEvents - polled) : BeginFrame(evs)
    \/ HandleEvent
    \/ \E dt \in DtSet : Momentum(dt)
    \/ AutoLevel
    \/ WrapYaw
    \/ Draw
    \/ Flip
    \/ ExitLoop

SpecRender == InitRender /\ [][NextRender]_vars

\* ------------------------------------------------- the projection, on its own
\* projected_vertices = prepare_vertices(rotated_vertices, ...)
Project ==
    /\ pc = "project"
    /\ LET r == prepare_vertices(rotated_vertices, screen_size[1], screen_size[2],
                                 camera_position, camera_distance)
       IN  /\ projected_vertices' = r.out
           /\ pc' = IF r.raised THEN "raised" ELSE "projected"
    /\ UNCHANGED exportVars
    /\ UNCHANGED diskVars
    /\ UNCHANGED scanVars
    /\ UNCHANGED renderVars
    /\ UNCHANGED <<rotated_vertices, polylines>>

InitProject ==
    /\ pc = "project"
    /\ mesh = MeshBox
    /\ ExportStart
    /\ file_exists = FALSE
    /\ file = <<>>
    /\ loaded = NothingLoaded
    /\ scan = ScanStart
    /\ lineno = 0
    /\ RenderStart
    /\ screen_size \in ScreenSizes
    /\ rotated_vertices \in PointLists
    /\ projected_vertices = <<>>
    /\ polylines = <<>>

NextProject == Project

SpecProject == InitProject /\ [][NextProject]_vars

\* ------------------------------------------------- the scanner, line by line
\* lines a file may hold: section headers, the terminator, a record every
\* section can read and a record with a field that is no number
HeaderLine(type, suffix) == <<type, " ", "cube">> \o suffix \o <<"[]", " ", "=", " ", "{">>

LinePool ==
    { HeaderLine("SVECTOR", <<"_verts">>),
      HeaderLine("SVECTOR", <<"_norms">>),
      HeaderLine("INDEX", <<"_vertex", "_indices">>),
      HeaderLine("INDEX", <<"_uv", "_indices">>),
      HeaderLine("int", <<"_normal", "_indices">>),
      <<"}", ";", " ">>,
      <<" ", " ", "{", "0", ",", "1", ",", "2", "}", ",">>,
      <<" ", " ", "{", "0", ",", "x", ",", "1", "}">> }

LineSeqs == UNION {[1..n -> LinePool] : n \in 0..MaxLines}

\* for line in file: one iteration
ReadLine ==
    /\ pc = "scan"
    /\ lineno < Len(file)
    /\ scan' = ScanLine(scan, file[lineno + 1])
    /\ lineno' = lineno + 1
    /\ pc' = IF scan'.raised # "none" THEN "raised" ELSE "scan"
    /\ UNCHANGED exportVars
    /\ UNCHANGED diskVars
    /\ UNCHANGED renderVars
    /\ UNCHANGED projVars

\* the file is exhausted: the six lists are returned
EndOfFile ==
    /\ pc = "scan"
    /\ lineno = Len(file)
    /\ loaded' = [ vertices |-> scan.out["vertices"], normals |-> scan.out["normals"],
                   uvs |-> scan.out["uvs"], vertex_indices |-> scan.out["vertex_indices"],
                   uv_indices |-> scan.out["uv_indices"],
                   normal_indices |-> scan.out["normal_indices"], raised |-> "none" ]
    /\ pc' = "returned"
    /\ UNCHANGED exportVars
    /\ UNCHANGED <<file_exists, file>>
    /\ UNCHANGED scanVars
    /\ UNCHANGED renderVars
    /\ UNCHANGED projVars

InitParse ==
    /\ pc = "scan"
    /\ mesh = MeshBox
    /\ ExportStart
    /\ file_exists = TRUE
    /\ file \in LineSeqs
    /\ loaded = NothingLoaded
    /\ scan = ScanStart
    /\ lineno = 0
    /\ RenderStart
    /\ screen_size = StartSize
    /\ ProjectStart

NextParse == ReadLine \/ EndOfFile

SpecParse == InitParse /\ [][NextParse]_vars

\* ------------------------------------------------------- the cube, exported
\* the 8 corners of a cube and its 6 sides, each side a quad over 4 of them
CubeCorners ==
    << <<-1, -1, -1>>, <<1, -1, -1>>, <<1, 1, -1>>, <<-1, 1, -1>>,
       <<-1, -1, 1>>,  <<1, -1, 1>>,  <<1, 1, 1>>,  <<-1, 1, 1>> >>

CubeQuads ==
    << [corners |-> <<1, 2, 3, 4>>, normal |-> <<0, 0, -1000>>],
       [corners |-> <<5, 6, 7, 8>>, normal |-> <<0, 0, 1000>>],
       [corners |-> <<1, 2, 6, 5>>, normal |-> <<0, -1000, 0>>],
       [corners |-> <<4, 3, 7, 8>>, normal |-> <<0, 1000, 0>>],
       [corners |-> <<1, 4, 8, 5>>, normal |-> <<-1000, 0, 0>>],
       [corners |-> <<2, 3, 7, 6>>, normal |-> <<1000, 0, 0>>] >>

\* the same cube with its top side cut into two triangles
CubeSplit ==
    << CubeQuads[1],
       [corners |-> <<5, 6, 7>>, normal |-> <<0, 0, 1000>>],
       [corners |-> <<5, 7, 8>>, normal |-> <<0, 0, 1000>>],
       CubeQuads[3], CubeQuads[4], CubeQuads[5], CubeQuads[6] >>

\* the uv of a side's corners, in corner order
CubeUVs == << <<0, 0>>, <<1000, 0>>, <<1000, 1000>>, <<0, 1000>> >>

RECURSIVE LoopsBefore(_, _)
\* loops of the polygons before the k-th
LoopsBefore(faces, k) ==
    IF k <= 1 THEN 0 ELSE LoopsBefore(faces, k - 1) + Len(faces[k - 1].corners)

\* mesh.loops: one loop per polygon corner, polygon after polygon
CubeLoops(faces, smooth) ==
    LET FaceOf(i) == CHOOSE k \in 1..Len(faces) :
                         LoopsBefore(faces, k) < i /\ i <= LoopsBefore(faces, k + 1)
    IN  [i \in 1..LoopsBefore(faces, Len(faces) + 1) |->
            LET k == FaceOf(i)
                c == i - LoopsBefore(faces, k)
                vi == faces[k].corners[c]
            IN  [vertex_index |-> vi,
                 normal |-> IF smooth THEN [a \in 1..3 |-> 577 * CubeCorners[vi][a]]
                            ELSE faces[k].normal,
                 uv |-> CubeUVs[c]]]

\* mesh.polygons: the loop_indices of each
CubePolygons(faces) ==
    [k \in 1..Len(faces) |->
        [c \in 1..Len(faces[k].corners) |-> LoopsBefore(faces, k) + c]]

CubeMesh(faces, smooth, uv_layers) ==
    [ name |-> <<"cube">>, uv_layers |-> uv_layers, vertices |-> CubeCorners,
      loops |-> CubeLoops(faces, smooth), polygons |-> CubePolygons(faces) ]

CubeMeshes ==
    {CubeMesh(faces, smooth, uv_layers) :
        faces \in {CubeQuads, CubeSplit}, smooth \in BOOLEAN, uv_layers \in BOOLEAN}

\* for poly in mesh.polygons: the next polygon of the mesh
NextMeshPoly ==
    /\ pc = "polys"
    /\ npolys < Len(mesh.polygons)
    /\ poly' = mesh.polygons[npolys + 1]
    /\ v_idx' = <<>>
    /\ n_idx' = <<>>
    /\ uv_idx' = <<>>
    /\ npolys' = npolys + 1
    /\ pc' = "loops"
    /\ UNCHANGED <<mesh, offset2, max_dim, vertex_map, normal_map, uv_map, verts, norms, uvs,
                   vertex_indices, uv_indices, normal_indices, result>>
    /\ UNCHANGED diskVars
    /\ UNCHANGED scanVars
    /\ UNCHANGED renderVars
    /\ UNCHANGED projVars

\* the file is written once the loop over mesh.polygons is over
WriteMeshFile(ok) ==
    /\ npolys = Len(mesh.polygons)
    /\ WriteFile(ok)

InitCube ==
    /\ pc = "start"
    /\ mesh \in CubeMeshes
    /\ ExportStart
    /\ file_exists = FALSE
    /\ file = <<>>
    /\ loaded = NothingLoaded
    /\ scan = ScanStart
    /\ lineno = 0
    /\ RenderStart
    /\ screen_size = StartSize
    /\ ProjectStart

NextCube ==
    \/ ComputeScale
    \/ NextMeshPoly
    \/ ProcessLoop
    \/ EmitFace
    \/ \E ok \in BOOLEAN : WriteMeshFile(ok)

SpecCube == InitCube /\ [][NextCube]_vars

\* ------------------------------------------------------ the loop, left idle
\* pitches, yaws and velocities the loop can be left with: tilted either way;
\* the yaw at 0 or at the wrap's edge; the velocity at zero (a drag move of no
\* length), a slow vertical swipe with no yaw in it, a faster diagonal one,
\* and the starting spin of 0.3 worn down to 0.2088 by 36 frames of friction
IdlePitches == {2500, -10000}
IdleYaws == {0, Deg180}
IdleVelocities ==
    { <<0, 0>>, <<2 * rotation_speed, 0>>, <<-20 * rotation_speed, 10 * rotation_speed>>,
      <<0, 2088>> }

\* while running: a tick, with no event waiting
TickIdle ==
    /\ pc = "while"
    /\ running
    /\ frames < MaxIdleFrames
    /\ events' = <<>>
    /\ frames' = frames + 1
    /\ pc' = "events"
    /\ UNCHANGED exportVars
    /\ UNCHANGED projVars
    /\ UNCHANGED diskVars
    /\ UNCHANGED scanVars
    /\ UNCHANGED <<printed, window_open, screen_size, angle_x, angle_y, angular_velocity,
                   is_dragging, last_mouse_pos, running, event, polled, drawn, presented>>

\* the loop of an empty model, in Idle, the button released
InitIdle ==
    /\ pc = "while"
    /\ mesh = MeshBox
    /\ ExportStart
    /\ file_exists = TRUE
    /\ file = EmptyModelFile
    /\ loaded = load_obj_c_model(TRUE, EmptyModelFile)
    /\ scan = ScanStart
    /\ lineno = 0
    /\ printed = FALSE
    /\ window_open = TRUE
    /\ screen_size = StartSize
    /\ angle_x \in IdlePitches
    /\ angle_y \in IdleYaws
    /\ angular_velocity \in IdleVelocities
    /\ is_dragging = FALSE
    /\ last_mouse_pos = <<400, 300>>
    /\ running = TRUE
    /\ events = <<>>
    /\ event = Event("MOUSEBUTTONUP", 1, <<400, 300>>, <<0, 0>>)
    /\ frames = 0
    /\ polled = 0
    /\ drawn = 0
    /\ presented = 0
    /\ ProjectStart

NextIdle ==
    \/ TickIdle
    \/ \E dt \in DtSet : Momentum(dt)
    \/ AutoLevel
    \/ WrapYaw
    \/ Draw
    \/ Flip

\* the loop is one thread: whatever step is next is taken
SpecIdle == InitIdle /\ [][NextIdle]_vars /\ WF_vars(NextIdle)

\* ------------------------------------------------------------------ claims
\* what the exporter interns for the k-th corner of the current polygon
CornerVertex(k) ==
    ConvertVertex(mesh.vertices[mesh.loops[poly[k]].vertex_index], offset2, UniformScale(max_dim))
CornerNormal(k) == ConvertNormal(mesh.loops[poly[k]].normal)
CornerUV(k) == ConvertUV(LoopUV(mesh, poly[k]))

Last(s) == s[Len(s)]

IsPrefix(s, t) == Len(s) <= Len(t) /\ SubSeq(t, 1, Len(s)) = s

\* C1: parsing the text the exporter wrote with load_obj_c_model gives back
\* the exporter's vertex, normal and UV tables and its vertex-index, UV-index
\* and normal-index lists, each in the exporter's order.
RoundTrip ==
    pc = "loaded" =>
        /\ loaded.raised = "none"
        /\ loaded.vertices = verts
        /\ loaded.normals = norms
        /\ loaded.uvs = uvs
        /\ loaded.vertex_indices = vertex_indices
        /\ loaded.uv_indices = uv_indices
        /\ loaded.normal_indices = normal_indices

\* one unique_insert call seen from outside: the table before and after, the
\* value and the index returned.  A value the table does not hold yet is put
\* at the end and its index is the old length; a value it holds leaves the
\* table as it was and gets the index of the entry holding it, which is the
\* only one (so the index of the first call), whatever was interned since.
InternedOnce(item, before, after, index) ==
    /\ IsPrefix(before, after)
    /\ index \in 0..(Len(after) - 1)
    /\ after[index + 1] = item
    /\ \A j \in 1..Len(after) : after[j] = item => j = index + 1
    /\ IF item \in Range(before)
       THEN Len(after) = Len(before)
       ELSE Len(after) = Len(before) + 1 /\ index = Len(before)

\* C2: over any sequence of unique_insert calls on a table, the first call
\* for a value returns the previous length and grows the table by one; every
\* later call for it returns that index and leaves the length unchanged.
DedupIdempotent ==
    [][Len(v_idx') = Len(v_idx) + 1 =>
          /\ InternedOnce(CornerVertex(Len(v_idx) + 1), verts, verts', Last(v_idx'))
          /\ InternedOnce(CornerNormal(Len(n_idx) + 1), norms, norms', Last(n_idx'))
          /\ InternedOnce(CornerUV(Len(uv_idx) + 1), uvs, uvs', Last(uv_idx'))]_vars

\* a value interned, another one interned, the first interned again
DedupWitness ==
    /\ pc = "loops"
    /\ npolys = 2
    /\ v_idx = <<0, 1, 0>>
    /\ Len(verts) = 2

\* C3: after any prefix of the polygon sequence every vertex index of every
\* face record is in 0..len(verts)-1 and every UV index in 0..len(uvs)-1.
IndexValidity ==
    /\ \A f \in 1..Len(vertex_indices) : \A k \in 1..4 :
           vertex_indices[f][k] >= 0 /\ vertex_indices[f][k] < Len(verts)
    /\ \A f \in 1..Len(uv_indices) : \A k \in 1..4 :
           uv_indices[f][k] >= 0 /\ uv_indices[f][k] < Len(uvs)

\* a triangle and a quad emitted over a two-entry vertex table
IndexValidityWitness ==
    /\ pc = "polys"
    /\ Len(vertex_indices) = 3
    /\ Len(verts) = 2
    /\ Len(uvs) = 2
    /\ \E f \in 1..3 : vertex_indices[f][4] = 1 /\ uv_indices[f][1] = 1

\* the corners of the current polygon, as table positions, are what `rec`
\* names in its first n slots
InLoopOrder(rec, n) ==
    \A k \in 1..n :
        /\ verts[rec.v[k] + 1] = CornerVertex(k)
        /\ uvs[rec.uv[k] + 1] = CornerUV(k)
        /\ norms[rec.n[k] + 1] = CornerNormal(k)

\* the f-th face record from the end of the lists, with its 4 normal entries
FaceFromEnd(vi, ui, ni, f) ==
    [ v |-> vi[Len(vi) - f],
      uv |-> ui[Len(ui) - f],
      n |-> SubSeq(ni, Len(ni) - 4 * f - 3, Len(ni) - 4 * f) ]

\* C4: a 4-corner polygon appends exactly two face records, the first in loop
\* order (v0,v1,v2,v3), the second its exact reverse; likewise the UV-index
\* records and the 4 per-corner normal indices.
WindingDoubling ==
    [][(pc = "loops" /\ pc' = "polys" /\ Len(poly) = 4) =>
          LET first == FaceFromEnd(vertex_indices', uv_indices', normal_indices', 1)
              second == FaceFromEnd(vertex_indices', uv_indices', normal_indices', 0)
          IN  /\ Len(vertex_indices') = Len(vertex_indices) + 2
              /\ Len(uv_indices') = Len(uv_indices) + 2
              /\ Len(normal_indices') = Len(normal_indices) + 8
              /\ IsPrefix(vertex_indices, vertex_indices')
              /\ IsPrefix(uv_indices, uv_indices')
              /\ IsPrefix(normal_indices, normal_indices')
              /\ InLoopOrder(first, 4)
              /\ second.v = Reverse(first.v)
              /\ second.uv = Reverse(first.uv)
              /\ second.n = Reverse(first.n)]_vars

\* a quad that is not its own reverse has been emitted
WindingDoublingWitness ==
    /\ pc = "polys"
    /\ Len(poly) = 4
    /\ Len(vertex_indices) >= 2
    /\ vertex_indices[Len(vertex_indices)] # vertex_indices[Len(vertex_indices) - 1]
    /\ vertex_indices[Len(vertex_indices)] = Reverse(vertex_indices[Len(vertex_indices) - 1])

\* C5: a 3-corner polygon appends exactly one face record, its first three
\* slots in loop order, its 4th vertex-index slot equal to the 3rd and its
\* 4th UV-index slot equal to the 3rd.
TrianglePadding ==
    [][(pc = "loops" /\ pc' = "polys" /\ Len(poly) = 3) =>
          LET rec == FaceFromEnd(vertex_indices', uv_indices', normal_indices', 0)
          IN  /\ Len(vertex_indices') = Len(vertex_indices) + 1
              /\ Len(uv_indices') = Len(uv_indices) + 1
              /\ IsPrefix(vertex_indices, vertex_indices')
              /\ IsPrefix(uv_indices, uv_indices')
              /\ InLoopOrder(rec, 3)
              /\ rec.v[4] = rec.v[3]
              /\ rec.uv[4] = rec.uv[3]]_vars

\* a triangle whose three corners are not one vertex has been emitted
TrianglePaddingWitness ==
    /\ pc = "polys"
    /\ Len(poly) = 3
    /\ Len(vertex_indices) >= 1
    /\ Last(vertex_indices)[1] # Last(vertex_indices)[3]
    /\ Last(uv_indices)[1] # Last(uv_indices)[3]

OffGuardPlane(v) == v[3] - camera_position[3] + camera_distance # 0

\* C7: prepare_vertices never divides by zero; the points with
\* z + camera_distance == 0 are absent from its output, every other point is
\* there once, in input order.
ProjectionGuard ==
    pc # "project" =>
        /\ pc = "projected"
        /\ LET kept == SelectSeq(rotated_vertices, OffGuardPlane)
               dropped == {i \in 1..Len(rotated_vertices) : ~OffGuardPlane(rotated_vertices[i])}
           IN  /\ Len(projected_vertices) = Len(rotated_vertices) - Cardinality(dropped)
               /\ Len(projected_vertices) = Len(kept)
               /\ \A i \in 1..Len(kept) :
                      projected_vertices[i] =
                          ScreenPoint(kept[i][1] - camera_position[1],
                                      kept[i][2] - camera_position[2],
                                      kept[i][3] - camera_position[3] + camera_distance,
                                      screen_size[1], screen_size[2])

\* a point on the guard plane between two that are not
ProjectionGuardWitness ==
    /\ pc = "projected"
    /\ Len(rotated_vertices) = 3
    /\ ~OffGuardPlane(rotated_vertices[2])
    /\ OffGuardPlane(rotated_vertices[1])
    /\ OffGuardPlane(rotated_vertices[3])
    /\ rotated_vertices[1] # rotated_vertices[3]
    /\ Len(projected_vertices) = 2

\* C8, as stated: a button press puts the controller in Dragging, a button
\* release puts it in Idle, and nothing else changes the mode.
ModeFollowsAnyButton ==
    [][IF pc = "events" /\ events # <<>>
       THEN IF Head(events).type = "MOUSEBUTTONDOWN" THEN is_dragging'
            ELSE IF Head(events).type = "MOUSEBUTTONUP" THEN ~is_dragging'
            ELSE is_dragging' = is_dragging
       ELSE is_dragging' = is_dragging]_vars

\* C8, amended: a press of button 1 puts the controller in Dragging, a
\* release of button 1 puts it in Idle, and nothing else (a press or release
\* of another button, a pointer move, a resize, a quit, a frame step) changes
\* the mode.
ModeFollowsLeftButton ==
    [][IF pc = "events" /\ events # <<>>
       THEN IF Head(events).type = "MOUSEBUTTONDOWN" /\ Head(events).button = 1
            THEN is_dragging'
            ELSE IF Head(events).type = "MOUSEBUTTONUP" /\ Head(events).button = 1
            THEN ~is_dragging'
            ELSE is_dragging' = is_dragging
       ELSE is_dragging' = is_dragging]_vars

\* Dragging held through the release of another button, into a later frame
ModeWitness ==
    /\ is_dragging
    /\ frames = 2
    /\ event.type = "MOUSEBUTTONUP"
    /\ event.button = 3
    /\ pc = "level"

\* C9: the loop is left only at its test, with `running` false, and only a
\* polled QUIT clears `running`; when it is left, every frame begun, the one
\* that polled QUIT included, has been drawn and presented.
LoopTermination ==
    /\ [][(running /\ ~running') =>
             (pc = "events" /\ events # <<>> /\ Head(events).type = "QUIT")]_vars
    /\ [][(pc # "exited" /\ pc' = "exited") => (pc = "while" /\ ~running)]_vars
    /\ [](pc \in {"while", "exited"} => (drawn = frames /\ presented = frames))
    /\ [](pc = "exited" => ~running)
    /\ [](pc = "raised" => ~window_open)

\* the loop left after its second frame, which polled QUIT before another
\* event and drew a model with one of its two points guarded out
LoopTerminationWitness ==
    /\ pc = "exited"
    /\ frames = 2
    /\ presented = 2
    /\ event.type # "QUIT"
    /\ Len(rotated_vertices) = 2
    /\ Len(projected_vertices) = 1

\* C10: with no cout/<base_name>.c, render_model prints the error and
\* returns: nothing is raised, no window is opened, no frame is begun.
FileNotFound ==
    (~file_exists /\ pc # "start") =>
        /\ pc = "returned"
        /\ printed
        /\ ~window_open
        /\ ~running
        /\ frames = 0
        /\ loaded.raised = "FileNotFoundError"

FileNotFoundWitness ==
    /\ ~file_exists
    /\ pc = "returned"
    /\ printed

\* the stripped line the scanner takes next
NextLine == Strip(file[lineno + 1], Whitespace)

\* the sections of integer records, and the others
IndexFlags == {"in_vertex_indices", "in_uv_indices", "in_normal_indices"}

\* the next line is a data record with a field that is no integer, met inside
\* an index section and outside every other section
MalformedIndexLine ==
    /\ pc = "scan"
    /\ lineno < Len(file)
    /\ \E f \in IndexFlags : scan.flags[f]
    /\ \A f \in FlagNames \ IndexFlags : ~scan.flags[f]
    /\ \A k \in 1..Len(Sections) :
           ~(Contains(NextLine, Sections[k].kw) /\ Contains(NextLine, Sections[k].suffix))
    /\ ~StartsWith(NextLine, <<"}", ";">>)
    /\ Contains(NextLine, <<"{">>)
    /\ Contains(NextLine, <<"}">>)
    /\ \E k \in 1..Len(RecordParts(NextLine)) : ~IsInt(RecordParts(NextLine)[k])

\* C11, as stated: inside the vertex-index, UV-index or normal-index section
\* a data line with a field that is no integer adds nothing to any list and
\* does not end the parse, which goes on with the lines after it.
MalformedLineRecovery ==
    [][MalformedIndexLine => (scan'.raised = "none" /\ scan'.out = scan.out /\ pc' = "scan")]_vars

\* C12, as stated: with a bounding box of extent zero the scale computation
\* raises nothing (the scale falls back to 1) and the export goes on to its
\* output.
DegenerateBoxGuarded ==
    (pc # "start" /\ MaxDim(mesh) = 0) => pc # "raised"

\* the bounding box x in [-2,2], y in [-1,1], z in [-2,2]
ScenarioBox(m) ==
    /\ MinOf(Coords(m, 1)) = -2 /\ MaxOf(Coords(m, 1)) = 2
    /\ MinOf(Coords(m, 2)) = -1 /\ MaxOf(Coords(m, 2)) = 1
    /\ MinOf(Coords(m, 3)) = -2 /\ MaxOf(Coords(m, 3)) = 2

\* 64 times the scale factor, as num/den
ScenarioScale == [num |-> 64 * ScaleFactor2, den |-> 2]

\* C13, as stated: for a mesh with that bounding box every corner interned is
\* its centred, axis-remapped position times 64 times the scale factor, and
\* the centre of the box goes to (0,0,0).
NormalizeScale ==
    (ScenarioBox(mesh) /\ pc \in {"polys", "loops", "written", "cancelled"}) =>
        /\ \A k \in 1..Len(v_idx) :
               verts[v_idx[k] + 1] =
                   ConvertVertex(mesh.vertices[mesh.loops[poly[k]].vertex_index],
                                 offset2, ScenarioScale)
        /\ ConvertVertex(<<0, 0, 0>>, offset2, UniformScale(max_dim)) = <<0, 0, 0>>

\* the face count written in the file: the number between "=" and ";" of the
\* _num_faces line
NumFaces(lines) ==
    LET l == lines[4]
        i == CHOOSE i \in 1..Len(l) : l[i] = "="
        j == CHOOSE j \in 1..Len(l) : l[j] = ";"
    IN  ParseInt(SubSeq(l, i + 1, j - 1))

\* polygons of the mesh with n corners
PolysOf(m, n) == Cardinality({k \in 1..Len(m.polygons) : Len(m.polygons[k]) = n})

\* C14: a cube of 6 quads over 8 shared corners is exported with 8 vertex
\* entries and 12 face records; whatever the mesh, the num_faces constant of
\* the file is the number of face records in the file, which is the number of
\* triangles plus twice the number of quads.
FaceCount ==
    /\ (pc \in {"written", "cancelled"} /\ PolysOf(mesh, 4) = 6 /\ PolysOf(mesh, 3) = 0) =>
           (Len(verts) = 8 /\ Len(vertex_indices) = 12)
    /\ pc = "written" =>
           /\ NumFaces(file) = Len(load_obj_c_model(TRUE, file).vertex_indices)
           /\ NumFaces(file) = PolysOf(mesh, 3) + 2 * PolysOf(mesh, 4)

\* the flat-shaded cube of 6 quads, written
FaceCountWitness ==
    /\ pc = "written"
    /\ PolysOf(mesh, 4) = 6
    /\ PolysOf(mesh, 3) = 0
    /\ Len(verts) = 8
    /\ Len(norms) = 6
    /\ NumFaces(file) = 12

RECURSIVE ValidCornersFrom(_, _, _)
\* the projections of a face's corners, in corner order, the corners whose
\* vertex the z-guard dropped left out
ValidCornersFrom(face, k, rotated) ==
    IF k > Len(face) THEN <<>>
    ELSE LET v == rotated[face[k] + 1]
             rest == ValidCornersFrom(face, k + 1, rotated)
         IN  IF OffGuardPlane(v)
             THEN <<ScreenPoint(v[1] - camera_position[1], v[2] - camera_position[2],
                                v[3] - camera_position[3] + camera_distance,
                                screen_size[1], screen_size[2])>> \o rest
             ELSE rest

\* C15, as stated: the polyline drawn for a face joins the projections of the
\* face's own corners that survived the z-guard, in corner order; the point
\* drawn for corner index i is the projection of vertex i, whatever other
\* vertex was dropped.
FaceDrawing ==
    pc = "flip" =>
        \A f \in 1..Len(loaded.vertex_indices) :
            polylines[f] = Segments(ValidCornersFrom(loaded.vertex_indices[f], 1, rotated_vertices))

\* C16: at the end of every frame passed in Idle the angular velocity is not
\* zero: its magnitude is at least the low threshold 0.2; and the flattening
\* of an Idle frame never takes the branch that stops the spin.
SpinNeverStops ==
    /\ []((~is_dragging /\ (pc \in {"level", "wrap", "draw", "flip"}
                              \/ (pc \in {"while", "exited"} /\ frames > 0))) =>
              (angular_velocity # <<0, 0>> /\ ~NormBelow(angular_velocity, LowThreshold)))
    /\ [][(pc = "level" /\ ~is_dragging) => angular_velocity' = angular_velocity]_vars

\* an Idle frame, entered by a release with the velocity at zero after a drag
\* move of no length, ends with the yaw spin back at 0.3
SpinNeverStopsWitness ==
    /\ pc = "flip"
    /\ ~is_dragging
    /\ frames = 2
    /\ event.type = "MOUSEBUTTONUP"
    /\ event.button = 1
    /\ angular_velocity = <<0, SpinFloor>>
    /\ angle_y > 0

\* C17, as stated: a frame whose pitch is beyond 0.1 after events and momentum
\* moves it towards zero by one step of 0.1, no more; any other frame sets it
\* to 0.
AutoLevelStep ==
    [][pc = "level" =>
          angle_x' = IF Abs(angle_x) > LevelEps
                     THEN angle_x - SignOf(angle_x) * LevelStep
                     ELSE 0]_vars

\* C19, as stated: after any prefix of any sequence of lines at most one of
\* the six inside-section flags is true, and a line is appended to one of the
\* six lists at most.
FlagsExclusive ==
    /\ [](Cardinality({f \in FlagNames : scan.flags[f]}) <= 1)
    /\ [][Cardinality({l \in ListNames : scan'.out[l] # scan.out[l]}) <= 1]_vars

\* the next event is a pointer move, and its delta from last_mouse_pos
MoveNext == pc = "events" /\ events # <<>> /\ Head(events).type = "MOUSEMOTION"
MoveDx == Head(events).pos[1] - last_mouse_pos[1]
MoveDy == Head(events).pos[2] - last_mouse_pos[2]

\* a pointer move in Dragging sets yaw -= dx*k, pitch += dy*k and the velocity
\* to (dy*k, -dx*k), k = 0.1; a pointer move in Idle changes none of the three
DragUpdate ==
    [][MoveNext =>
          IF is_dragging
          THEN /\ angle_y' = angle_y - MoveDx * 1000
               /\ angle_x' = angle_x + MoveDy * 1000
               /\ angular_velocity' = <<MoveDy * 1000, -MoveDx * 1000>>
          ELSE UNCHANGED <<angle_x, angle_y, angular_velocity>>]_vars

\* C20, as stated: DragUpdate, and the velocity handed to the first Idle frame
\* after a release is the one set by the most recent drag move of non-zero
\* delta: a drag move of zero delta that follows one of non-zero delta leaves
\* the velocity that one set.
DragHandOffNonZero ==
    /\ DragUpdate
    /\ [][(MoveNext /\ is_dragging /\ MoveDx = 0 /\ MoveDy = 0
             /\ event.type = "MOUSEMOTION" /\ angular_velocity # <<0, 0>>) =>
             angular_velocity' = angular_velocity]_vars

\* C20, amended: DragUpdate; every other event, the release among them,
\* leaves angles and velocity as they are; the flattening of a Dragging frame
\* leaves a velocity of magnitude 0.05 or more as it is; and the momentum step
\* of an Idle frame integrates the velocity it finds, before decaying it. So
\* the velocity integrated in the first Idle frame after a release is the one
\* set by the last move of the drag, zero when that move had zero delta.
DragHandOff ==
    /\ DragUpdate
    /\ [][(pc = "events" /\ events # <<>> /\ Head(events).type # "MOUSEMOTION") =>
             UNCHANGED <<angle_x, angle_y, angular_velocity>>]_vars
    /\ [][(pc = "level" /\ ~NormBelow(angular_velocity, StopThreshold)) =>
             angular_velocity' = angular_velocity]_vars
    /\ [][(pc = "events" /\ events = <<>>) =>
             IF is_dragging THEN UNCHANGED <<angle_x, angle_y, angular_velocity>>
             ELSE \E dt \in DtSet :
                      /\ angle_x' = angle_x + RoundHalfEven(angular_velocity[1] * dt, 1000)
                      /\ angle_y' = angle_y + RoundHalfEven(angular_velocity[2] * dt, 1000)]_vars

\* press, a move of (1000, 2000) and the release in one frame: its momentum
\* step has integrated (200, -100) degrees a second over 16 ms
DragHandOffWitness ==
    /\ pc = "level"
    /\ ~is_dragging
    /\ event.type = "MOUSEBUTTONUP"
    /\ event.button = 1
    /\ angle_x = 2000000 + 32000
    /\ angle_y = -1000000 - 16000
    /\ angular_velocity = <<1980000, -990000>>

\* the longest tick
LongestDt == CHOOSE d \in DtSet : \A e \in DtSet : e <= d

\* the pitch velocity below which one tick's turn is within the flattening's
\* snap to 0
SlowPitchRate == (LevelEps * 1000) \div LongestDt

TableInverse(item_list, item_map) ==
    /\ \A i, j \in 1..Len(item_list) : item_list[i] = item_list[j] => i = j
    /\ DOMAIN item_map = Range(item_list)
    /\ \A i \in 1..Len(item_list) : item_map[item_list[i]] = i - 1

\* one unique_insert call on a table: a value the table holds leaves it as it
\* was, a new value goes to the end
FirstSeenOrder(item, before, after) ==
    after = IF item \in Range(before) THEN before ELSE Append(before, item)

\* C21: after any sequence of unique_insert calls each table holds no two
\* equal entries and its map is exactly the inverse of its list; no step
\* removes or moves an entry, and a call appends its value at the end when
\* the table does not hold it and changes nothing when it does.
TableInvariant ==
    /\ [](/\ TableInverse(verts, vertex_map)
          /\ TableInverse(norms, normal_map)
          /\ TableInverse(uvs, uv_map))
    /\ [][/\ IsPrefix(verts, verts')
          /\ IsPrefix(norms, norms')
          /\ IsPrefix(uvs, uvs')]_vars
    /\ [][Len(v_idx') = Len(v_idx) + 1 =>
             /\ FirstSeenOrder(CornerVertex(Len(v_idx) + 1), verts, verts')
             /\ FirstSeenOrder(CornerNormal(Len(n_idx) + 1), norms, norms')
             /\ FirstSeenOrder(CornerUV(Len(uv_idx) + 1), uvs, uvs')]_vars

\* a second polygon under way: the tables hold two entries or more each, and
\* the corner just interned was the vertex table's first entry already
TableInvariantWitness ==
    /\ pc = "loops"
    /\ npolys = 2
    /\ Len(v_idx) >= 1
    /\ Last(v_idx) = 0
    /\ Len(verts) = 2
    /\ Len(norms) >= 2
    /\ Len(uvs) >= 2

====
